---- MODULE Spec2Model ----
(***************************************************************************)
(* Report session engine of Sonograph-X: the working report (form,         *)
(* currentId), the history list fed by the Firestore subscription, the     *)
(* save / load / delete / new handlers and the AI bridge.                  *)
(*                                                                         *)
(* The model covers a session whose bootstrap (initApp) has completed with *)
(* a Firebase configuration: user and dbRef.current are set, so the guard  *)
(* `if (!user || !dbRef.current) return` of the handlers does not fire.    *)
(*                                                                         *)
(* JavaScript strings are TLA+ strings; null is the value Null and a       *)
(* missing object key reads as Undefined.                                  *)
(***************************************************************************)
EXTENDS Integers, Sequences, FiniteSets, TLC

VARIABLES
    form,              \* useState form: the current report's fields
    currentId,         \* useState currentId: Null or the id the session saves under
    reports,           \* useState reports: the history list
    aiLoading,         \* useState aiLoading: "false" | "polish" | "impression" | "explain"
    explainModalOpen,  \* useState explainModalOpen
    aiExplanation,     \* useState aiExplanation
    store,             \* the user's remote collection: document id -> document data
    pending,           \* gateway calls in flight, in issue order
    nextAuto,          \* number of auto-generated document ids handed out by addDoc
    now,               \* the wall clock read by new Date()
    calls,             \* generate invocations in flight
    bridge,            \* the AI bridge of the running build: "callGemini" | "callAiFunction"
    ended,             \* history: the generate invocation that ended in the latest step
    alertMsg,          \* the alert() dialog raised by the latest step, "" when none
    sessionDoc,        \* history: the document that holds the session's report, Null when none does
    ageSex,            \* useState ageSex: what the RRN effect computed
    today,             \* the calendar date new Date() gives during the session
    lastEdit,          \* history: the latest template / snippet operation on the form
    invocation         \* one invocation of the Cloud Function generateReportText

vars == <<form, currentId, reports, aiLoading, explainModalOpen, aiExplanation,
          store, pending, nextAuto, now, calls, bridge, ended, alertMsg, sessionDoc,
          lastEdit, invocation, ageSex, today>>

\* the AI dialog state, and what no handler of the session writes
aiVars == <<aiLoading, explainModalOpen, aiExplanation>>
envVars == <<nextAuto, now, bridge, today>>
auxVars == <<lastEdit, invocation, ageSex>>

----------------------------------------------------------------------------
(* Bounds *)

MaxTime == 1          \* clock values 0..MaxTime
MaxAuto == 2          \* documents addDoc may create
MaxPending == 2       \* gateway calls in flight at once
MaxCalls == 2         \* generate invocations in flight at once
MaxRepeat == 2        \* times in a row the same template is applied
MaxFindings == 400    \* length of findings up to which snippets are appended

----------------------------------------------------------------------------
(* JavaScript values *)

Null == "<null>"
Undefined == "<undefined>"

\* JS truthiness of a string-or-null value
Truthy(v) == v # Null /\ v # Undefined /\ v # ""

\* a || b
JsOr(a, b) == IF Truthy(a) THEN a ELSE b

\* obj.key
Get(obj, k) == IF k \in DOMAIN obj THEN obj[k] ELSE Undefined

\* { ...base, ...over }: keys of the later spread win
Spread(base, over) ==
    [k \in DOMAIN base \cup DOMAIN over |->
        IF k \in DOMAIN over THEN over[k] ELSE base[k]]

\* new Date().toISOString(), and its date part .split('T')[0]
toISOString_day(t) == "2026-11-03"      \* a stamp without the time of day
toISOString(t) == "2026-11-03T00:00:0" \o ToString(t) \o ".000Z"

RECURSIVE SplitT0(_)
SplitT0(s) ==
    IF s = "" \/ SubSeq(s, 1, 1) = "T" THEN ""
    ELSE SubSeq(s, 1, 1) \o SplitT0(SubSeq(s, 2, Len(s)))

Today == SplitT0(toISOString(0))

\* new Date(str): the clock value the string denotes, NaN when it denotes none
NaN == -1
ParseDate(s) ==
    IF \E t \in 0..(MaxTime + 1) : toISOString(t) = s
    THEN CHOOSE t \in 0..(MaxTime + 1) : toISOString(t) = s
    ELSE NaN

----------------------------------------------------------------------------
(* DemographicResolver: the RRN effect *)

\* a JavaScript value that is a number, NaN, or the empty string
JsNum(n) == [t |-> "number", val |-> n]
JsNaN == [t |-> "NaN", val |-> 0]
JsEmpty == [t |-> "empty", val |-> 0]

\* a - b, a + b, a < b, a === b on numbers: NaN in, NaN (or false) out
JsSub(a, b) == IF a.t = "NaN" \/ b.t = "NaN" THEN JsNaN ELSE JsNum(a.val - b.val)
JsAdd(a, b) == IF a.t = "NaN" \/ b.t = "NaN" THEN JsNaN ELSE JsNum(a.val + b.val)
JsLt(a, b) == a.t = "number" /\ b.t = "number" /\ a.val < b.val
JsEq(a, b) == a.t = "number" /\ b.t = "number" /\ a.val = b.val

IsDigit(c) == c \in {"0", "1", "2", "3", "4", "5", "6", "7", "8", "9"}

DigitVal(c) ==
    CASE c = "0" -> 0 [] c = "1" -> 1 [] c = "2" -> 2 [] c = "3" -> 3
      [] c = "4" -> 4 [] c = "5" -> 5 [] c = "6" -> 6 [] c = "7" -> 7
      [] c = "8" -> 8 [] c = "9" -> 9

\* parseInt(s) of a string without a hexadecimal prefix: white space and a
\* sign are skipped, the decimal digits that follow are read, NaN if none
RECURSIVE ParseDigits(_, _, _)
ParseDigits(s, acc, seen) ==
    IF s # "" /\ IsDigit(SubSeq(s, 1, 1))
    THEN ParseDigits(SubSeq(s, 2, Len(s)), acc * 10 + DigitVal(SubSeq(s, 1, 1)), TRUE)
    ELSE IF seen THEN JsNum(acc) ELSE JsNaN

RECURSIVE SkipSpace(_)
SkipSpace(s) ==
    IF s # "" /\ SubSeq(s, 1, 1) \in {" ", "\n", "\t"}
    THEN SkipSpace(SubSeq(s, 2, Len(s))) ELSE s

ParseInt(s) ==
    LET u == SkipSpace(s)
    IN IF u # "" /\ SubSeq(u, 1, 1) = "+"
       THEN ParseDigits(SubSeq(u, 2, Len(u)), 0, FALSE)
       ELSE IF u # "" /\ SubSeq(u, 1, 1) = "-"
       THEN JsSub(JsNum(0), ParseDigits(SubSeq(u, 2, Len(u)), 0, FALSE))
       ELSE ParseDigits(u, 0, FALSE)

\* s.replace(/-/g, '')
RECURSIVE StripHyphens(_)
StripHyphens(s) ==
    IF s = "" THEN ""
    ELSE (IF SubSeq(s, 1, 1) = "-" THEN "" ELSE SubSeq(s, 1, 1))
            \o StripHyphens(SubSeq(s, 2, Len(s)))

\* s.charAt(i) and s.substring(a, b), positions counted from 0
charAt(s, i) == IF i < Len(s) THEN SubSeq(s, i + 1, i + 1) ELSE ""
substring(s, a, b) == SubSeq(s, a + 1, IF b < Len(s) THEN b ELSE Len(s))

\* the body of the effect: what it passes to setAgeSex for form.rrn = raw on
\* the day d (d.month as getMonth() gives it, 0 for January)
Resolve(raw, d) ==
    LET rrn == StripHyphens(raw)
    IN IF Len(rrn) < 7 THEN [age |-> JsEmpty, sex |-> ""]
       ELSE LET digit == ParseInt(charAt(rrn, 6))
                yearPrefix == IF digit.t = "number" /\ digit.val \in {1, 2, 5, 6}
                              THEN 1900 ELSE 2000
                year == JsAdd(JsNum(yearPrefix), ParseInt(substring(rrn, 0, 2)))
                month == JsSub(ParseInt(substring(rrn, 2, 4)), JsNum(1))
                day == ParseInt(substring(rrn, 4, 6))
                age == JsSub(JsNum(d.year), year)
                before == \/ JsLt(JsNum(d.month), month)
                          \/ JsEq(JsNum(d.month), month) /\ JsLt(JsNum(d.date), day)
                odd == digit.t = "NaN" \/ digit.val % 2 # 0   \* NaN !== 0
            IN [age |-> IF before THEN JsSub(age, JsNum(1)) ELSE age,
                sex |-> IF odd THEN "Male" ELSE "Female"]

\* the day the session's timestamps are stamped with, and other days
TodayDate == [year |-> 2026, month |-> 10, date |-> 3]
Todays ==
    {TodayDate,
     [year |-> 2026, month |-> 0, date |-> 1],
     [year |-> 2026, month |-> 1, date |-> 3],
     [year |-> 2026, month |-> 11, date |-> 31]}

\* what is typed into the RRN input
RrnInputs ==
    {"", "900101", "900101-", "900101-1234567", "9001011", "050203-4234567",
     "851103-5", "851104-6", "101231-7", "100201-8", "300101-3234567",
     "90.01.01", "900101 1234567", "9001 01"}

----------------------------------------------------------------------------
(* The report form *)

BlankForm ==
    [name |-> "", id |-> "", rrn |-> "", date |-> Today, type |-> "",
     indication |-> "", findings |-> "", impression |-> ""]

\* values typed into the inputs
EditVals(field) ==
    CASE field = "name" -> {"", "A"}
      [] field = "id" -> {"", "p1"}
      [] field = "findings" -> {"", "f"}
      [] field = "impression" -> {"", "m"}
      [] OTHER -> {""}

AutoIds == {"d" \o ToString(i) : i \in 1..MaxAuto}
AutoId(n) == "d" \o ToString(n)

----------------------------------------------------------------------------
(* HistoryIndex: the onSnapshot handler *)

\* document ids in the order the query returns them (by document name)
DocIdSeq == [i \in 1..MaxAuto |-> AutoId(i)] \o <<"p1">>

SnapDocs == SelectSeq(DocIdSeq, LAMBDA d : d \in DOMAIN store)

\* d => ({ id: d.id, ...d.data() }); the key _doc is history only: it keeps
\* the document the entry was built from and is read by no handler
Item_docid(d) == Spread(store[d], [id |-> d, _doc |-> d])   \* the spread the other way round
Item(d) == Spread([id |-> d, _doc |-> d], store[d])

\* (a, b) => new Date(b.updatedAt) - new Date(a.updatedAt); a NaN result
\* counts as 0 for Array.prototype.sort
Compare_asc(a, b) ==          \* the comparator with its operands swapped
    LET ta == ParseDate(Get(a, "updatedAt"))
        tb == ParseDate(Get(b, "updatedAt"))
    IN IF ta = NaN \/ tb = NaN THEN 0 ELSE ta - tb
Compare(a, b) ==
    LET ta == ParseDate(Get(a, "updatedAt"))
        tb == ParseDate(Get(b, "updatedAt"))
    IN IF ta = NaN \/ tb = NaN THEN 0 ELSE tb - ta

\* stable insertion: x goes in front of the first entry that must follow it
RECURSIVE InsertSorted(_, _)
InsertSorted(x, s) ==
    IF s = <<>> THEN <<x>>
    ELSE IF Compare(Head(s), x) > 0 THEN <<x>> \o s
    ELSE <<Head(s)>> \o InsertSorted(x, Tail(s))

RECURSIVE Sort(_)
Sort(s) ==
    IF s = <<>> THEN <<>>
    ELSE InsertSorted(s[Len(s)], Sort(SubSeq(s, 1, Len(s) - 1)))

SnapshotList == Sort([i \in 1..Len(SnapDocs) |-> Item(SnapDocs[i])])

\* history: no generate invocation ended in this step
NoCall == [kind |-> "none"]

\* history: the form was last touched otherwise than by a template or snippet
NoEdit == [op |-> "none", arg |-> "", n |-> 0]

\* no request has reached the Cloud Function
NoInvocation == [phase |-> "none"]

\* a handler that would also select the newest entry of the list
onSnapshot_selects ==
    /\ reports' = SnapshotList
    /\ reports' # reports
    /\ currentId' = IF reports' # <<>> THEN reports'[1].id ELSE currentId
    /\ alertMsg' = ""
    /\ ended' = NoCall
    /\ UNCHANGED <<auxVars, form, aiVars, store, pending, envVars, calls, sessionDoc>>

onSnapshot ==
    /\ reports' = SnapshotList
    /\ reports' # reports
    /\ alertMsg' = ""
    /\ ended' = NoCall
    /\ UNCHANGED <<auxVars, form, currentId, aiVars, store, pending, envVars, calls, sessionDoc>>

----------------------------------------------------------------------------
(* ReportSession: edit, new, load *)

\* history: the calls in flight that write into the session when they end
\* (creates, generate calls) were issued for a report it no longer holds
MarkStale(s) ==
    [i \in 1..Len(s) |->
        IF s[i].kind \in {"create", "polish", "impression", "explain"}
        THEN [s[i] EXCEPT !.stale = TRUE] ELSE s[i]]

handleChange(field, value) ==
    /\ form[field] # value
    /\ form' = [form EXCEPT ![field] = value]
    /\ lastEdit' = NoEdit
    /\ alertMsg' = ""
    /\ ended' = NoCall
    /\ UNCHANGED <<invocation, ageSex, currentId, reports, aiVars, store, pending,
                   envVars, calls, sessionDoc>>

\* useEffect(..., [form.rrn]): runs after a render in which form.rrn changed
rrnEffect ==
    /\ ageSex' = Resolve(form.rrn, today)
    /\ ageSex' # ageSex
    /\ alertMsg' = ""
    /\ ended' = NoCall
    /\ UNCHANGED <<form, currentId, reports, aiVars, store, pending, envVars, calls,
                   sessionDoc, lastEdit, invocation>>

\* the state updates of handleNew, shared with handleDelete's continuation
NewReport ==
    /\ currentId' = Null
    /\ form' = BlankForm
    /\ sessionDoc' = Null
    /\ calls' = MarkStale(calls)

handleNew ==
    /\ NewReport
    /\ pending' = MarkStale(pending)
    /\ alertMsg' = ""
    /\ ended' = NoCall
    /\ UNCHANGED <<auxVars, reports, aiVars, store, envVars>>

handleLoad(item) ==
    /\ currentId' = Get(item, "id")
    /\ form' = [name |-> JsOr(Get(item, "name"), ""),
                id |-> JsOr(JsOr(Get(item, "id_num"), Get(item, "id")), ""),
                rrn |-> JsOr(Get(item, "rrn"), ""),
                date |-> JsOr(Get(item, "date"), ""),
                type |-> JsOr(Get(item, "type"), ""),
                indication |-> JsOr(Get(item, "indication"), ""),
                findings |-> JsOr(Get(item, "findings"), ""),
                impression |-> JsOr(Get(item, "impression"), "")]
    /\ sessionDoc' = item._doc
    /\ calls' = MarkStale(calls)
    /\ pending' = MarkStale(pending)
    /\ alertMsg' = ""
    /\ ended' = NoCall
    /\ UNCHANGED <<auxVars, reports, aiVars, store, envVars>>

----------------------------------------------------------------------------
(* TemplateCatalog and the template / snippet handlers *)

\* the catalog's entries for two of its nine exam types, with their texts
TEMPLATES ==
    ("Abdomen US" :>
        [normal |-> "Liver is appropriate in size with homogeneous echotexture and no focal lesion.\nGallbladder is well-distended without wall thickening, stones, or sludge; common duct is not dilated.\nPancreas and spleen are unremarkable.\nBoth kidneys are normal in size and echogenicity without hydronephrosis or calculus.",
         impression |-> "Normal abdominal ultrasound."]) @@
    ("Scrotum US" :>
        [normal |-> "Both testes are normal in size with homogeneous echogenicity and symmetric intratesticular flow.\nEpididymides are unremarkable.\nNo hydrocele, varicocele, or scrotal wall thickening is present.\nSpermatic cords are intact without twisting.",
         impression |-> "Normal scrotal ultrasound."])

\* the general snippet list and the lists of the same two exam types
COMMON_ABNORMAL ==
    ("general" :>
        <<
          [label |-> "Free fluid",
           text |-> "Small volume simple free fluid noted in the dependent pelvis without septation or debris."],
          [label |-> "Lymphadenopathy",
           text |-> "Mildly enlarged lymph nodes with preserved hilum and cortical thickness <3 mm, likely reactive."] >>) @@
    ("Abdomen US" :>
        <<
          [label |-> "Cholecystitis",
           text |-> "Gallbladder wall thickening with mural hyperemia and a positive sonographic Murphy sign; layering sludge without calculi. Common duct caliber is within normal limits."],
          [label |-> "Hepatomegaly",
           text |-> "Liver is enlarged with mildly increased echogenicity, compatible with diffuse parenchymal disease. No focal lesion or intrahepatic biliary dilatation."],
          [label |-> "Splenomegaly",
           text |-> "Spleen is enlarged for age with homogeneous echotexture and no focal lesion."] >>) @@
    ("Scrotum US" :>
        <<
          [label |-> "Torsion",
           text |-> "Affected testis is enlarged and heterogeneous with absent intratesticular flow; spermatic cord shows whirlpool sign. Contralateral testis is normal."],
          [label |-> "Epididymo-orchitis",
           text |-> "Testis and epididymis are enlarged with heterogeneous echogenicity and markedly increased vascularity; small reactive hydrocele present."],
          [label |-> "Hydrocele",
           text |-> "Anechoic fluid collection surrounds the testis without septation; testes and epididymides are otherwise normal."] >>)

\* the value of the template select when handleTemplate runs: an exam type of
\* the catalog, and the values the catalog has no entry for
ExamTypes == DOMAIN TEMPLATES \cup {"", "Thyroid US"}

\* TEMPLATES[type]?.normal and TEMPLATES[type]?.impression
TemplateField(type, k) ==
    IF type \in DOMAIN TEMPLATES THEN TEMPLATES[type][k] ELSE Undefined

\* prev => ({ ...prev, type, findings: ... || '', impression: ... || '' }),
\* and an updater that would fill in only what is empty
applyTemplate_fills(f, type) ==
    [f EXCEPT !.type = type,
              !.findings = JsOr(f.findings, JsOr(TemplateField(type, "normal"), "")),
              !.impression = JsOr(f.impression,
                                  JsOr(TemplateField(type, "impression"), ""))]
applyTemplate(f, type) ==
    [f EXCEPT !.type = type,
              !.findings = JsOr(TemplateField(type, "normal"), ""),
              !.impression = JsOr(TemplateField(type, "impression"), "")]

\* history: how often in a row the operation op has now been run with arg
Repeats(op, arg) ==
    IF lastEdit.op = op /\ lastEdit.arg = arg THEN lastEdit.n ELSE 0

\* a handler whose updater would add the template to the findings in place
handleTemplate_adds(type) ==
    /\ Repeats("template", type) < MaxRepeat
    /\ form' = [applyTemplate(form, type) EXCEPT
                    !.findings = form.findings \o @]
    /\ lastEdit' = [op |-> "template", arg |-> type,
                    n |-> Repeats("template", type) + 1]
    /\ alertMsg' = ""
    /\ ended' = NoCall
    /\ UNCHANGED <<invocation, ageSex, currentId, reports, aiVars, store, pending,
                   envVars, calls, sessionDoc>>

handleTemplate(type) ==
    /\ Repeats("template", type) < MaxRepeat
    /\ form' = applyTemplate(form, type)
    /\ lastEdit' = [op |-> "template", arg |-> type,
                    n |-> Repeats("template", type) + 1]
    /\ alertMsg' = ""
    /\ ended' = NoCall
    /\ UNCHANGED <<invocation, ageSex, currentId, reports, aiVars, store, pending,
                   envVars, calls, sessionDoc>>

\* prev => ({ ...prev, findings: prev.findings ? `${prev.findings}\n\n${text}`
\* : text }), and an updater that would join with a single line break
appendSnippet_nl(f, text) ==
    [f EXCEPT !.findings =
        IF Truthy(f.findings) THEN f.findings \o "\n" \o text ELSE text]
appendSnippet(f, text) ==
    [f EXCEPT !.findings =
        IF Truthy(f.findings) THEN f.findings \o "\n\n" \o text ELSE text]

addAbnormalSnippet(text) ==
    /\ Len(form.findings) <= MaxFindings
    /\ form' = appendSnippet(form, text)
    /\ lastEdit' = [op |-> "snippet", arg |-> text,
                    n |-> IF lastEdit.op = "snippet" THEN lastEdit.n + 1 ELSE 1]
    /\ alertMsg' = ""
    /\ ended' = NoCall
    /\ UNCHANGED <<invocation, ageSex, currentId, reports, aiVars, store, pending,
                   envVars, calls, sessionDoc>>

\* every snippet text of the lists
SnippetTexts ==
    UNION {{COMMON_ABNORMAL[k][i].text : i \in 1..Len(COMMON_ABNORMAL[k])} :
              k \in DOMAIN COMMON_ABNORMAL}

\* COMMON_ABNORMAL[form.type] || COMMON_ABNORMAL.general (a list is truthy),
\* and the lookup without its fallback
abnormalOptions_own(f) ==
    IF f.type \in DOMAIN COMMON_ABNORMAL THEN COMMON_ABNORMAL[f.type] ELSE <<>>
abnormalOptions(f) ==
    IF f.type \in DOMAIN COMMON_ABNORMAL
    THEN COMMON_ABNORMAL[f.type] ELSE COMMON_ABNORMAL["general"]

----------------------------------------------------------------------------
(* ReportSession and PersistenceGateway: save and delete *)

\* !form.name, and the test `form.name === null` in its place
NameMissing_null(f) == f.name = Null
NameMissing(f) == ~Truthy(f.name)

\* a gateway call in flight. isCurrent is handleDelete's `currentId === id`:
\* both operands are values of the render in which the button was clicked, so
\* the comparison is decided at the click. sel (the document behind the
\* clicked entry) and stale are history.
Op(kind, id, data, isCurrent, sel) ==
    [kind |-> kind, id |-> id, data |-> data, isCurrent |-> isCurrent,
     sel |-> sel, stale |-> FALSE]

handleSave ==
    /\ IF NameMissing(form)
       THEN /\ alertMsg' = "Patient Name is required."
            /\ UNCHANGED <<pending, nextAuto>>
       ELSE LET data == Spread(form, [updatedAt |-> toISOString(now)])
            IN /\ Len(pending) < MaxPending
               /\ IF Truthy(currentId)
                  THEN /\ pending' = Append(pending,
                              Op("update", currentId, data, FALSE, Null))
                       /\ UNCHANGED nextAuto
                  ELSE /\ nextAuto < MaxAuto
                       /\ nextAuto' = nextAuto + 1
                       /\ pending' = Append(pending,
                              Op("create", AutoId(nextAuto + 1), data, FALSE, Null))
               /\ alertMsg' = ""
    /\ ended' = NoCall
    /\ UNCHANGED <<auxVars, form, currentId, reports, aiVars, store, now, bridge, today,
                   calls,
                   sessionDoc>>

\* the awaited setDoc / addDoc resolves: the rest of handleSave's try block
SaveResolved ==
    /\ pending # <<>>
    /\ LET op == Head(pending)
       IN /\ op.kind \in {"create", "update"}
          /\ store' = [d \in DOMAIN store \cup {op.id} |->
                          IF d = op.id
                          THEN IF d \in DOMAIN store
                               THEN Spread(store[d], op.data) ELSE op.data
                          ELSE store[d]]
          /\ IF op.kind = "create"
             THEN /\ currentId' = op.id
                  /\ sessionDoc' = IF ~op.stale /\ sessionDoc = Null
                                   THEN op.id ELSE sessionDoc
             ELSE UNCHANGED <<currentId, sessionDoc>>
    /\ pending' = Tail(pending)
    /\ alertMsg' = "Report saved successfully."
    /\ ended' = NoCall
    /\ UNCHANGED <<auxVars, form, reports, aiVars, envVars, calls>>

\* a handleSave that had adopted the new document's id before the write was
\* acknowledged: the rejected create leaves that id behind
SaveRejected_adopts ==
    /\ pending # <<>>
    /\ Head(pending).kind \in {"create", "update"}
    /\ currentId' = IF Head(pending).kind = "create"
                    THEN Head(pending).id ELSE currentId
    /\ pending' = Tail(pending)
    /\ alertMsg' = ""
    /\ ended' = NoCall
    /\ UNCHANGED <<auxVars, form, reports, aiVars, store, envVars, calls,
                   sessionDoc>>

\* the awaited setDoc / addDoc rejects: catch (e) { console.error(...) }
SaveRejected ==
    /\ pending # <<>>
    /\ Head(pending).kind \in {"create", "update"}
    /\ pending' = Tail(pending)
    /\ alertMsg' = ""
    /\ ended' = NoCall
    /\ UNCHANGED <<auxVars, form, currentId, reports, aiVars, store, envVars, calls,
                   sessionDoc>>

handleDelete(item) ==
    /\ Len(pending) < MaxPending
    /\ pending' = Append(pending,
            Op("delete", Get(item, "id"), <<>>, currentId = Get(item, "id"),
               item._doc))
    /\ alertMsg' = ""
    /\ ended' = NoCall
    /\ UNCHANGED <<auxVars, form, currentId, reports, aiVars, store, envVars, calls,
                   sessionDoc>>

\* the awaited deleteDoc resolves: `if (currentId === id) handleNew()`
DeleteResolved ==
    /\ pending # <<>>
    /\ LET op == Head(pending)
       IN /\ op.kind = "delete"
          /\ store' = [d \in DOMAIN store \ {op.id} |-> store[d]]
          /\ IF op.isCurrent
             THEN /\ NewReport
                  /\ pending' = MarkStale(Tail(pending))
             ELSE /\ pending' = Tail(pending)
                  /\ UNCHANGED <<currentId, form, sessionDoc, calls>>
    /\ alertMsg' = ""
    /\ ended' = NoCall
    /\ UNCHANGED <<auxVars, reports, aiVars, envVars>>

\* the awaited deleteDoc rejects: the handler ends with the rejection
DeleteRejected ==
    /\ pending # <<>>
    /\ Head(pending).kind = "delete"
    /\ pending' = Tail(pending)
    /\ alertMsg' = ""
    /\ ended' = NoCall
    /\ UNCHANGED <<auxVars, form, currentId, reports, aiVars, store, envVars, calls,
                   sessionDoc>>

\* time passes
Tick ==
    /\ now < MaxTime
    /\ now' = now + 1
    /\ alertMsg' = ""
    /\ ended' = NoCall
    /\ UNCHANGED <<auxVars, form, currentId, reports, aiVars, store, pending, nextAuto,
                   bridge, today, calls, sessionDoc>>

----------------------------------------------------------------------------
(* AIBridge: text helpers and the Cloud Function *)

MAX_RETRIES == 3
BaseDelay == 1000

RECURSIVE Pow2(_)
Pow2(n) == IF n = 0 THEN 1 ELSE 2 * Pow2(n - 1)

\* 1000 * Math.pow(2, i)
Backoff(i) == BaseDelay * Pow2(i)

IsSpace(c) == c \in {" ", "\n", "\t"}

RECURSIVE TrimStart(_)
TrimStart(s) ==
    IF s # "" /\ IsSpace(SubSeq(s, 1, 1))
    THEN TrimStart(SubSeq(s, 2, Len(s))) ELSE s

RECURSIVE TrimEnd(_)
TrimEnd(s) ==
    IF s # "" /\ IsSpace(SubSeq(s, Len(s), Len(s)))
    THEN TrimEnd(SubSeq(s, 1, Len(s) - 1)) ELSE s

\* String.prototype.trim
Trim(s) == TrimEnd(TrimStart(s))

\* texts the external model returns, and the reasons it gives for failing
RawTexts == {" ok\n", "  "}
RateLimitReason == "quota exceeded"
OtherReason == "bad request"

\* what one external call comes back with
Upstreams ==
    [status : {200}, text : RawTexts, reason : {""}]
    \cup [status : {429}, text : {""}, reason : {RateLimitReason}]
    \cup [status : {500}, text : {""}, reason : {OtherReason}]
    \cup [status : {0}, text : {""}, reason : {"Failed to fetch"}]

\* functions/index.js generateReportText, lines 21-28: the error the function
\* throws before it calls the model, "" when the request passes
RequestError(req) ==
    IF ~Truthy(req.mode) THEN "mode is required"
    ELSE IF ~Truthy(req.findings) /\ req.mode # "explain"
    THEN "findings are required"
    ELSE ""

\* functions/index.js generateReportText, lines 30-45: the answer to a request
\* whose check came out as err, when the call to the model comes back with up
generateReportText(err, up) ==
    IF err # "" THEN [ok |-> FALSE, message |-> err]
    ELSE IF up.status = 200
    THEN [ok |-> TRUE, text |-> JsOr(Trim(up.text), "")]
    ELSE [ok |-> FALSE, message |-> "AI generation failed"]

----------------------------------------------------------------------------
(* The Cloud Function as an endpoint: a callable any client may invoke *)

\* everything but the invocation
appVars == <<form, currentId, reports, aiVars, store, pending, envVars, calls,
             ended, alertMsg, sessionDoc, lastEdit, ageSex>>

\* request.data of a call; a key the caller left out reads as Undefined
Requests ==
    [mode : {Undefined, "", "polish", "impression", "explain", "summary"},
     findings : {Undefined, Null, "", "f"},
     impression : {Undefined, Null, "", "m"}]

\* const { mode, findings = '', impression = '' } = request.data || {}
Destructure(data) ==
    [mode |-> data.mode,
     findings |-> IF data.findings = Undefined THEN "" ELSE data.findings,
     impression |-> IF data.impression = Undefined THEN "" ELSE data.impression]

\* buildPrompt: the error it throws for a mode it has no prompt for
BuildPromptError(mode) ==
    IF mode \in {"polish", "impression", "explain"} THEN "" ELSE "Unsupported mode"

\* the argument of openai.responses.create, the prompt aside; temperature in
\* tenths (3 for 0.3)
ModelRequest(mode) ==
    [model |-> "gpt-4o-mini",
     max_output_tokens |-> IF mode = "explain" THEN 600 ELSE 350,
     temperature |-> 3]

\* a request reaches the function
EndpointReceives(data) ==
    /\ invocation.phase = "none"
    /\ invocation' = [phase |-> "received", req |-> Destructure(data)]
    /\ UNCHANGED appVars

\* lines 23-30: the checks and buildPrompt; the function either throws or goes
\* on to openai.responses.create
EndpointPrepares ==
    /\ invocation.phase = "received"
    /\ LET err == JsOr(RequestError(invocation.req),
                       BuildPromptError(invocation.req.mode))
       IN invocation' =
             IF err # ""
             THEN [phase |-> "thrown", req |-> invocation.req, message |-> err]
             ELSE [phase |-> "calling", req |-> invocation.req,
                   call |-> ModelRequest(invocation.req.mode)]
    /\ UNCHANGED appVars

\* lines 32-45: the call to the model comes back
EndpointModelReturns(up) ==
    /\ invocation.phase = "calling"
    /\ invocation' = [phase |-> "done", req |-> invocation.req,
                      res |-> generateReportText("", up)]
    /\ UNCHANGED appVars

----------------------------------------------------------------------------
(* AIBridge: the handlers *)

\* !form.findings (and the test `form.findings === undefined` in its place),
\* and !form.findings && !form.impression
FindingsMissing_undefined(f) == f.findings = Undefined
FindingsMissing(f) == ~Truthy(f.findings)
ReportEmpty(f) == ~Truthy(f.findings) /\ ~Truthy(f.impression)

\* a generate invocation in flight: the loop index i of callGemini, whether it
\* awaits the response ("fetch") or the backoff timer ("sleep"), the timer's
\* delay, and err, what the Cloud Function makes of the request's payload
\* (decided by the fields sent at the click). History: n external calls made,
\* hard = some attempt failed otherwise than by a 429, stale.
NewCall(mode, f) ==
    [kind |-> mode, i |-> 0, phase |-> "fetch", delay |-> 0,
     err |-> RequestError([mode |-> mode, findings |-> f.findings,
                           impression |-> f.impression]),
     n |-> 1, hard |-> FALSE, stale |-> FALSE]

Without(s, k) == SubSeq(s, 1, k - 1) \o SubSeq(s, k + 1, Len(s))

handleAiPolish ==
    /\ aiLoading = "false"                       \* disabled={aiLoading}
    /\ IF FindingsMissing(form)
       THEN /\ alertMsg' = "Please enter findings first."
            /\ UNCHANGED <<aiLoading, calls>>
       ELSE /\ Len(calls) < MaxCalls
            /\ aiLoading' = "polish"
            /\ calls' = Append(calls, NewCall("polish", form))
            /\ alertMsg' = ""
    /\ ended' = NoCall
    /\ UNCHANGED <<auxVars, form, currentId, reports, explainModalOpen, aiExplanation,
                   store, pending, envVars, sessionDoc>>

handleAiImpression ==
    /\ aiLoading = "false"                       \* disabled={aiLoading}
    /\ IF FindingsMissing(form)
       THEN /\ alertMsg' = "Please enter findings first."
            /\ UNCHANGED <<aiLoading, calls>>
       ELSE /\ Len(calls) < MaxCalls
            /\ aiLoading' = "impression"
            /\ calls' = Append(calls, NewCall("impression", form))
            /\ alertMsg' = ""
    /\ ended' = NoCall
    /\ UNCHANGED <<auxVars, form, currentId, reports, explainModalOpen, aiExplanation,
                   store, pending, envVars, sessionDoc>>

handleAiExplain ==
    /\ IF ReportEmpty(form)
       THEN /\ alertMsg' = "Report is empty."
            /\ UNCHANGED <<aiVars, calls>>
       ELSE /\ Len(calls) < MaxCalls
            /\ explainModalOpen' = TRUE
            /\ aiExplanation' = "Generating explanation..."
            /\ aiLoading' = "explain"
            /\ calls' = Append(calls, NewCall("explain", form))
            /\ alertMsg' = ""
    /\ ended' = NoCall
    /\ UNCHANGED <<auxVars, form, currentId, reports, store, pending, envVars, sessionDoc>>

\* () => setExplainModalOpen(false)
closeExplainModal ==
    /\ explainModalOpen
    /\ explainModalOpen' = FALSE
    /\ alertMsg' = ""
    /\ ended' = NoCall
    /\ UNCHANGED <<auxVars, form, currentId, reports, aiLoading, aiExplanation, store,
                   pending, envVars, calls, sessionDoc>>

\* handlers that would write a polish or impression result into both texts
Finish_both(k, c, result, raw, alert) ==
    /\ calls' = Without(calls, k)
    /\ IF c.kind \in {"polish", "impression"}
       THEN /\ form' = IF Truthy(result)
                       THEN [form EXCEPT !.findings = result, !.impression = result]
                       ELSE form
            /\ UNCHANGED <<explainModalOpen, aiExplanation>>
       ELSE /\ aiExplanation' = JsOr(result, "Failed to generate explanation.")
            /\ UNCHANGED <<form, explainModalOpen>>
    /\ aiLoading' = "false"
    /\ alertMsg' = alert
    /\ ended' = [kind |-> c.kind, result |-> result, raw |-> raw, n |-> c.n,
                 hard |-> c.hard, stale |-> c.stale]
    /\ UNCHANGED <<auxVars, currentId, reports, store, pending, envVars, sessionDoc>>

\* the rest of the handler after `await callGemini(...)` / `await
\* callAiFunction(...)` returned result for invocation k (c with its history
\* brought up to date), alert being what the bridge reported on its way out;
\* raw is the text the model sent, Null when the invocation failed
Finish(k, c, result, raw, alert) ==
    /\ calls' = Without(calls, k)
    /\ IF c.kind = "polish"
       THEN /\ form' = IF Truthy(result)
                       THEN [form EXCEPT !.findings = result] ELSE form
            /\ UNCHANGED <<explainModalOpen, aiExplanation>>
       ELSE IF c.kind = "impression"
       THEN /\ form' = IF Truthy(result)
                       THEN [form EXCEPT !.impression = result] ELSE form
            /\ UNCHANGED <<explainModalOpen, aiExplanation>>
       ELSE /\ aiExplanation' = JsOr(result, "Failed to generate explanation.")
            /\ UNCHANGED <<form, explainModalOpen>>
    /\ aiLoading' = "false"
    /\ alertMsg' = alert
    /\ ended' = [kind |-> c.kind, result |-> result, raw |-> raw, n |-> c.n,
                 hard |-> c.hard, stale |-> c.stale]
    /\ UNCHANGED <<auxVars, currentId, reports, store, pending, envVars, sessionDoc>>

\* a loop that would run while i <= MAX_RETRIES
NextAttempt_again(k, c, alert) ==
    IF c.i + 1 < MAX_RETRIES + 1
    THEN /\ calls' = [calls EXCEPT ![k] =
                [c EXCEPT !.i = c.i + 1, !.phase = "fetch", !.delay = 0,
                          !.n = c.n + 1]]
         /\ alertMsg' = alert
         /\ ended' = NoCall
         /\ UNCHANGED <<auxVars, form, currentId, reports, aiVars, store, pending,
                        envVars, sessionDoc>>
    ELSE Finish(k, c, Null, Null, alert)

\* the loop of callGemini moves on from iteration c.i: the next fetch when
\* one is left, `return null` after the last
NextAttempt(k, c, alert) ==
    IF c.i + 1 < MAX_RETRIES
    THEN /\ calls' = [calls EXCEPT ![k] =
                [c EXCEPT !.i = c.i + 1, !.phase = "fetch", !.delay = 0,
                          !.n = c.n + 1]]
         /\ alertMsg' = alert
         /\ ended' = NoCall
         /\ UNCHANGED <<auxVars, form, currentId, reports, aiVars, store, pending,
                        envVars, sessionDoc>>
    ELSE Finish(k, c, Null, Null, alert)

\* App.jsx callGemini: the awaited fetch of iteration i comes back
GeminiResponds(k, up) ==
    /\ bridge = "callGemini"
    /\ calls[k].phase = "fetch"
    /\ LET c == calls[k]
       IN IF up.status = 200
          THEN Finish(k, c, Trim(up.text), up.text, "")
          ELSE IF up.status = 429
          THEN /\ calls' = [calls EXCEPT ![k] =
                      [c EXCEPT !.phase = "sleep", !.delay = Backoff(c.i)]]
               /\ alertMsg' = ""
               /\ ended' = NoCall
               /\ UNCHANGED <<auxVars, form, currentId, reports, aiVars, store, pending,
                              envVars, sessionDoc>>
          ELSE \* throw new Error(...) or a throwing fetch: the catch block
               NextAttempt(k, [c EXCEPT !.hard = TRUE],
                           IF c.i = MAX_RETRIES - 1
                           THEN "AI Service Error: " \o up.reason ELSE "")

\* App.jsx callGemini: the backoff timer of iteration i fires
GeminiWakes(k) ==
    /\ bridge = "callGemini"
    /\ calls[k].phase = "sleep"
    /\ NextAttempt(k, calls[k], "")

\* part_000 callAiFunction: the awaited callable comes back, either with the
\* function's answer or with a transport failure (status 0)
FunctionResponds(k, up) ==
    /\ bridge = "callAiFunction"
    /\ calls[k].phase = "fetch"
    /\ LET c == calls[k]
           res == generateReportText(c.err, up)
       IN IF up.status # 0 /\ res.ok
          THEN Finish(k, c, JsOr(res.text, ""), up.text, "")
          ELSE LET msg == IF up.status = 0 THEN up.reason ELSE res.message
               IN Finish(k, [c EXCEPT !.hard = (up.status # 429)], Null, Null,
                         "AI Service Error: " \o JsOr(msg, "Unknown error"))

----------------------------------------------------------------------------
(* Specifications *)

\* a new session of a user without saved reports
Init ==
    /\ form = BlankForm
    /\ currentId = Null
    /\ reports = <<>>
    /\ aiLoading = "false"
    /\ explainModalOpen = FALSE
    /\ aiExplanation = ""
    /\ store = <<>>
    /\ pending = <<>>
    /\ nextAuto = 0
    /\ now = 0
    /\ calls = <<>>
    /\ bridge = "callAiFunction"
    /\ ended = NoCall
    /\ alertMsg = ""
    /\ sessionDoc = Null
    /\ lastEdit = NoEdit
    /\ invocation = NoInvocation
    /\ ageSex = [age |-> JsEmpty, sex |-> ""]
    /\ today = TodayDate

\* Spec: the session with its store and history list
Next ==
    \/ \E field \in {"name", "id"} : \E value \in EditVals(field) :
          handleChange(field, value)
    \/ handleNew
    \/ \E i \in 1..Len(reports) : handleLoad(reports[i])
    \/ handleSave
    \/ SaveResolved
    \/ SaveRejected
    \/ \E i \in 1..Len(reports) : handleDelete(reports[i])
    \/ DeleteResolved
    \/ DeleteRejected
    \/ onSnapshot

Spec == Init /\ [][Next]_vars

\* SpecSave: editing and saving one report after another, as time passes
NextSave ==
    \/ \E field \in {"name", "id"} : \E value \in EditVals(field) :
          handleChange(field, value)
    \/ handleNew
    \/ handleSave
    \/ SaveResolved
    \/ SaveRejected
    \/ Tick

SpecSave == Init /\ [][NextSave]_vars

\* SpecAI: the AI bridge of either build, in the session of a user who has one
\* saved report
SavedReport ==
    Spread([BlankForm EXCEPT !.name = "A", !.findings = "f"],
           [updatedAt |-> toISOString(0)])

InitAI ==
    /\ form = BlankForm
    /\ currentId = Null
    /\ reports = <<>>
    /\ aiLoading = "false"
    /\ explainModalOpen = FALSE
    /\ aiExplanation = ""
    /\ store = [d \in {AutoId(1)} |-> SavedReport]
    /\ pending = <<>>
    /\ nextAuto = 1
    /\ now = 0
    /\ calls = <<>>
    /\ bridge \in {"callGemini", "callAiFunction"}
    /\ ended = NoCall
    /\ alertMsg = ""
    /\ sessionDoc = Null
    /\ lastEdit = NoEdit
    /\ invocation = NoInvocation
    /\ ageSex = [age |-> JsEmpty, sex |-> ""]
    /\ today = TodayDate

NextAI ==
    \/ \E field \in {"findings", "impression"} : \E value \in EditVals(field) :
          handleChange(field, value)
    \/ handleNew
    \/ \E i \in 1..Len(reports) : handleLoad(reports[i])
    \/ onSnapshot
    \/ handleAiPolish
    \/ handleAiImpression
    \/ handleAiExplain
    \/ closeExplainModal
    \/ \E k \in 1..Len(calls) : \E up \in Upstreams : GeminiResponds(k, up)
    \/ \E k \in 1..Len(calls) : GeminiWakes(k)
    \/ \E k \in 1..Len(calls) : \E up \in Upstreams : FunctionResponds(k, up)

SpecAI == InitAI /\ [][NextAI]_vars

\* SpecGenerate: the AI bridge of either build under a user who starts no
\* generate call while another is in flight
Idle == calls = <<>>

NextGenerate ==
    \/ \E field \in {"findings", "impression"} : \E value \in EditVals(field) :
          handleChange(field, value)
    \/ handleNew
    \/ \E i \in 1..Len(reports) : handleLoad(reports[i])
    \/ onSnapshot
    \/ (Idle \/ FindingsMissing(form)) /\ handleAiPolish
    \/ (Idle \/ FindingsMissing(form)) /\ handleAiImpression
    \/ (Idle \/ ReportEmpty(form)) /\ handleAiExplain
    \/ closeExplainModal
    \/ \E k \in 1..Len(calls) : \E up \in Upstreams : GeminiResponds(k, up)
    \/ \E k \in 1..Len(calls) : GeminiWakes(k)
    \/ \E k \in 1..Len(calls) : \E up \in Upstreams : FunctionResponds(k, up)

SpecGenerate == InitAI /\ [][NextGenerate]_vars

\* SpecHistory: reports saved one after another as time passes, and the
\* history list that follows them
NextHistory ==
    \/ \E value \in EditVals("name") : handleChange("name", value)
    \/ handleNew
    \/ handleSave
    \/ SaveResolved
    \/ Tick
    \/ onSnapshot

SpecHistory == Init /\ [][NextHistory]_vars

\* SpecEdit: writing a report by hand, from templates and from snippets, in a
\* fresh session or in the session of a report that has been saved
InitEdit ==
    /\ \/ /\ form = BlankForm
          /\ currentId = Null
          /\ store = <<>>
          /\ nextAuto = 0
          /\ sessionDoc = Null
       \/ /\ form = [BlankForm EXCEPT !.name = "A", !.findings = "f"]
          /\ currentId = AutoId(1)
          /\ store = [d \in {AutoId(1)} |-> SavedReport]
          /\ nextAuto = 1
          /\ sessionDoc = AutoId(1)
    /\ reports = <<>>
    /\ aiLoading = "false"
    /\ explainModalOpen = FALSE
    /\ aiExplanation = ""
    /\ pending = <<>>
    /\ now = 0
    /\ calls = <<>>
    /\ bridge = "callAiFunction"
    /\ ended = NoCall
    /\ alertMsg = ""
    /\ lastEdit = NoEdit
    /\ invocation = NoInvocation
    /\ ageSex = [age |-> JsEmpty, sex |-> ""]
    /\ today = TodayDate

NextEdit ==
    \/ \E field \in {"name", "findings", "impression"} :
          \E value \in EditVals(field) : handleChange(field, value)
    \/ \E type \in ExamTypes : handleTemplate(type)
    \/ \E i \in 1..Len(abnormalOptions(form)) :
          addAbnormalSnippet(abnormalOptions(form)[i].text)

SpecEdit == InitEdit /\ [][NextEdit]_vars

\* SpecFail: a user who lets a save, delete or generate end, successfully or
\* not, before starting the next
Quiet == pending = <<>> /\ calls = <<>>

NextFail ==
    \/ \E value \in EditVals("name") : handleChange("name", value)
    \/ onSnapshot
    \/ \E i \in 1..Len(reports) : Quiet /\ handleLoad(reports[i])
    \/ Quiet /\ handleSave
    \/ SaveResolved
    \/ SaveRejected
    \/ \E i \in 1..Len(reports) : Quiet /\ handleDelete(reports[i])
    \/ DeleteResolved
    \/ DeleteRejected
    \/ Quiet /\ handleAiPolish
    \/ Quiet /\ handleAiImpression
    \/ \E k \in 1..Len(calls) : \E up \in Upstreams : GeminiResponds(k, up)
    \/ \E k \in 1..Len(calls) : GeminiWakes(k)
    \/ \E k \in 1..Len(calls) : \E up \in Upstreams : FunctionResponds(k, up)

SpecFail == InitAI /\ [][NextFail]_vars

\* SpecRoundTrip: reports written, saved and loaded again by a user who lets
\* each save end before the next action on the store; the session starts with
\* a blank form or with one the user has filled in
FilledForm ==
    [name |-> "A", id |-> "p1", rrn |-> "900101-1234567", date |-> "2026-10-30",
     type |-> "Scrotum US", indication |-> "pain",
     findings |-> TEMPLATES["Scrotum US"].normal \o "\n\n"
                     \o COMMON_ABNORMAL["Scrotum US"][3].text,
     impression |-> "Hydrocele."]

InitRoundTrip ==
    /\ form \in {BlankForm, FilledForm}
    /\ currentId = Null
    /\ reports = <<>>
    /\ aiLoading = "false"
    /\ explainModalOpen = FALSE
    /\ aiExplanation = ""
    /\ store = <<>>
    /\ pending = <<>>
    /\ nextAuto = 0
    /\ now = 0
    /\ calls = <<>>
    /\ bridge = "callAiFunction"
    /\ ended = NoCall
    /\ alertMsg = ""
    /\ sessionDoc = Null
    /\ lastEdit = NoEdit
    /\ invocation = NoInvocation
    /\ today = TodayDate
    /\ ageSex = Resolve(form.rrn, today)

NextRoundTrip ==
    \/ \E value \in EditVals("id") : handleChange("id", value)
    \/ rrnEffect
    \/ handleNew
    \/ Quiet /\ handleSave
    \/ SaveResolved
    \/ onSnapshot
    \/ \E i \in 1..Len(reports) : Quiet /\ handleLoad(reports[i])

SpecRoundTrip == InitRoundTrip /\ [][NextRoundTrip]_vars

\* SpecResolver: the RRN input edited on some day, and the effect that follows
InitResolver ==
    /\ form = BlankForm
    /\ currentId = Null
    /\ reports = <<>>
    /\ aiLoading = "false"
    /\ explainModalOpen = FALSE
    /\ aiExplanation = ""
    /\ store = <<>>
    /\ pending = <<>>
    /\ nextAuto = 0
    /\ now = 0
    /\ calls = <<>>
    /\ bridge = "callAiFunction"
    /\ ended = NoCall
    /\ alertMsg = ""
    /\ sessionDoc = Null
    /\ lastEdit = NoEdit
    /\ invocation = NoInvocation
    /\ ageSex = [age |-> JsEmpty, sex |-> ""]
    /\ today \in Todays

NextResolver ==
    \/ \E value \in RrnInputs : handleChange("rrn", value)
    \/ rrnEffect

SpecResolver == InitResolver /\ [][NextResolver]_vars

\* SpecEndpoint: one request to the Cloud Function, from whatever client
NextEndpoint ==
    \/ \E data \in Requests : EndpointReceives(data)
    \/ EndpointPrepares
    \/ \E up \in Upstreams : EndpointModelReturns(up)

SpecEndpoint == Init /\ [][NextEndpoint]_vars

\* SpecGenerateLive: SpecGenerate when every external call comes back, with an
\* answer or a failure, and every backoff timer fires
SpecGenerateLive ==
    /\ SpecGenerate
    /\ WF_vars(\E k \in 1..Len(calls) : \E up \in Upstreams : GeminiResponds(k, up))
    /\ WF_vars(\E k \in 1..Len(calls) : GeminiWakes(k))
    /\ WF_vars(\E k \in 1..Len(calls) : \E up \in Upstreams : FunctionResponds(k, up))

----------------------------------------------------------------------------
(* Claims *)

\* C1: on a fresh session the first successful save adopts the id its create
\* returned as the session's persistent id, and every later save of that
\* session is an update of that id, never a create.
ClaimC1 ==
    [][ /\ (SaveResolved /\ Head(pending).kind = "create"
              /\ ~Head(pending).stale /\ sessionDoc = Null)
           => currentId' = Head(pending).id
        /\ (handleSave /\ form.name # "" /\ sessionDoc # Null)
           => /\ pending'[Len(pending')].kind = "update"
              /\ pending'[Len(pending')].id = sessionDoc ]_vars

\* C2: load(record) of an entry of the history list leaves the session keyed
\* by the store document the entry was built from.
ClaimC2 ==
    [][ \A i \in 1..Len(reports) :
           handleLoad(reports[i]) => currentId' = reports[i]._doc ]_vars

\* C3: when a delete completes, the document of the entry the user selected is
\* gone from the store (so the next snapshot leaves it out), and the session is
\* reset to a blank report when that document held the session's report.
ClaimC3 ==
    [][ DeleteResolved =>
           /\ Head(pending).sel \notin DOMAIN store'
           /\ (Head(pending).sel = sessionDoc
                  => currentId' = Null /\ form' = BlankForm) ]_vars

ClaimC5 ==
    [][ (ended'.kind \in {"polish", "impression"} /\ ended'.stale)
           => /\ form'.findings = form.findings
              /\ form'.impression = form.impression ]_vars

\* C6: at most one generate invocation is in flight.
ClaimC6 == Len(calls) <= 1

\* C7: after an attempt failed otherwise than by a 429, the invocation is over:
\* no invocation that saw such a failure is still in flight.
ClaimC7 == \A k \in 1..Len(calls) : ~calls[k].hard

\* C8: an invocation makes at most MAX_RETRIES (3) external calls, waits
\* 1000 * 2^i ms after the rate-limited attempt i (1000, then 2000), does not
\* give up on rate-limit failures before the third attempt, and when the model
\* answers it returns the answer's text trimmed.
ClaimC8 ==
    /\ \A k \in 1..Len(calls) :
          /\ calls[k].n <= 3
          /\ calls[k].phase = "sleep" =>
                /\ calls[k].delay = 1000 * Pow2(calls[k].i)
                /\ calls[k].i = 0 => calls[k].delay = 1000
                /\ calls[k].i = 1 => calls[k].delay = 2000
    /\ (ended.kind # "none" /\ ended.raw # Null) =>
          /\ ended.n <= 3
          /\ ended.raw = " ok\n" => ended.result = "ok"
          /\ ended.raw = "  " => ended.result = ""
    /\ (ended.kind # "none" /\ ended.raw = Null /\ ~ended.hard) => ended.n = 3

\* C9: an invocation whose every attempt was rate-limited, up to the maximum
\* attempt count, ends with a reported error that carries the rate-limit
\* reason.
ClaimC9 ==
    (ended.kind # "none" /\ ended.raw = Null /\ ~ended.hard /\ ended.n = 3)
       => alertMsg = "AI Service Error: " \o RateLimitReason

\* C10: polish and impression with empty findings, and explain with findings
\* and impression both empty, raise the validation alert, start no call and
\* leave the report, the in-flight indicator and the explanation dialog alone.
ThmC10 ==
    [][ /\ ((handleAiPolish \/ handleAiImpression) /\ form.findings = "")
           => /\ alertMsg' = "Please enter findings first."
              /\ UNCHANGED <<form, currentId, aiVars, calls, pending>>
        /\ (handleAiExplain /\ form.findings = "" /\ form.impression = "")
           => /\ alertMsg' = "Report is empty."
              /\ UNCHANGED <<form, currentId, aiVars, calls, pending>> ]_vars

\* a refused polish of a report that has an impression but no findings
WitC10 ==
    /\ alertMsg = "Please enter findings first."
    /\ form.findings = "" /\ form.impression # ""
    /\ calls = <<>>

\* C11: generateReportText calls the external model only for a request that
\* carries its required input: findings for polish and impression, findings
\* or impression for explain.
ClaimC11 ==
    invocation.phase = "calling" =>
       /\ invocation.req.mode \in {"polish", "impression"}
             => Truthy(invocation.req.findings)
       /\ invocation.req.mode = "explain"
             => Truthy(invocation.req.findings) \/ Truthy(invocation.req.impression)

\* C12: a rejected save, a rejected delete and a failed generate leave the
\* report's fields and its persistent id as they were; after a rejected create
\* the session still has no persistent id, and a save of a session without one
\* is a create.
ThmC12 ==
    [][ /\ (SaveRejected \/ DeleteRejected)
           => form' = form /\ currentId' = currentId
        /\ (ended'.kind # "none" /\ ended'.raw = Null)
           => form' = form /\ currentId' = currentId
        /\ (SaveRejected /\ Head(pending).kind = "create")
           => ~Truthy(currentId')
        /\ (handleSave /\ form.name # "" /\ ~Truthy(currentId))
           => pending'[Len(pending')].kind = "create" ]_vars

\* the first save of a fresh report was rejected: addDoc handed out a second
\* document id, no call is in flight, the document does not exist and the
\* session has no persistent id
WitC12 ==
    /\ pending = <<>>
    /\ nextAuto = 2 /\ AutoId(2) \notin DOMAIN store
    /\ currentId = Null /\ form.name = "A"

\* C13: a save that reached the gateway ends by telling the user how it went:
\* the success alert when the write succeeded, a failure report (and not the
\* success alert) when the write was rejected.
ClaimC13 ==
    [][ /\ SaveResolved => alertMsg' = "Report saved successfully."
        /\ SaveRejected
           => alertMsg' # "" /\ alertMsg' # "Report saved successfully." ]_vars

\* C14: a save stamps its data with the time at which it is issued, and a
\* write applied to a stored document carries that stamp into the store and
\* never moves the document's updatedAt backwards.
ThmC14 ==
    [][ /\ (handleSave /\ form.name # "")
           => ParseDate(pending'[Len(pending')].data.updatedAt) = now
        /\ SaveResolved
           => LET op == Head(pending)
              IN /\ store'[op.id].updatedAt = op.data.updatedAt
                 /\ op.id \in DOMAIN store
                       => ParseDate(store'[op.id].updatedAt)
                             >= ParseDate(store[op.id].updatedAt) ]_vars

\* an update stamped at time 1 is on its way to a document last written at
\* time 0
WitC14 ==
    /\ pending # <<>>
    /\ Head(pending).kind = "update"
    /\ Head(pending).id \in DOMAIN store
    /\ ParseDate(store[Head(pending).id].updatedAt) = 0
    /\ ParseDate(Head(pending).data.updatedAt) = 1

\* C15: the list a snapshot leaves behind has exactly one entry for each
\* document of the store, carrying that document's data, and no entry is
\* followed by one with a later updatedAt.
ThmC15 ==
    [][ onSnapshot =>
           /\ Len(reports') = Cardinality(DOMAIN store)
           /\ \A d \in DOMAIN store :
                 \E i \in 1..Len(reports') :
                    /\ reports'[i]._doc = d
                    /\ \A k \in DOMAIN store[d] : reports'[i][k] = store[d][k]
           /\ \A i, j \in 1..Len(reports') :
                 i < j => ParseDate(reports'[i].updatedAt)
                             >= ParseDate(reports'[j].updatedAt) ]_vars

\* the list holds the document created second, stamped 1, in front of the
\* document created first, stamped 0
WitC15 ==
    /\ Len(reports) = 2
    /\ reports[1]._doc = AutoId(2) /\ ParseDate(reports[1].updatedAt) = 1
    /\ reports[2]._doc = AutoId(1) /\ ParseDate(reports[2].updatedAt) = 0

\* C16: the delivery of a snapshot changes the history list and nothing else
\* of the session: not the report's fields, not its persistent id, not the
\* store or the calls in flight.
ThmC16 ==
    [][ onSnapshot =>
           /\ form' = form /\ currentId' = currentId
           /\ UNCHANGED <<aiVars, store, pending, calls>> ]_vars

\* the list is the latest snapshot and shows the session's document as it was
\* before the update that is in flight
WitC16 ==
    /\ reports = SnapshotList
    /\ pending # <<>>
    /\ Head(pending).kind = "update" /\ Head(pending).id = currentId
    /\ \E i \in 1..Len(reports) :
          /\ reports[i]._doc = currentId
          /\ ParseDate(reports[i].updatedAt)
                < ParseDate(Head(pending).data.updatedAt)

\* C17: appending a snippet to non-empty findings f leaves f, the two
\* characters of a blank line and the snippet's text, in that order and nothing
\* else; appended to empty findings it leaves the text alone; no other field
\* of the report and not its persistent id change.
ThmC17 ==
    [][ \A text \in SnippetTexts :
           addAbnormalSnippet(text) =>
              LET f == form.findings
                  g == form'.findings
              IN /\ f # "" =>
                       /\ Len(g) = Len(f) + 2 + Len(text)
                       /\ SubSeq(g, 1, Len(f)) = f
                       /\ SubSeq(g, Len(f) + 1, Len(f) + 2) = "\n\n"
                       /\ SubSeq(g, Len(g) - Len(text) + 1, Len(g)) = text
                 /\ f = "" => g = text
                 /\ \A k \in DOMAIN form \ {"findings"} : form'[k] = form[k]
                 /\ currentId' = currentId ]_vars

\* two snippets in a row were appended to the saved report's findings
WitC17 ==
    /\ lastEdit.op = "snippet" /\ lastEdit.n = 2
    /\ SubSeq(form.findings, 1, 3) = "f\n\n"
    /\ form.name = "A" /\ currentId = AutoId(1)

\* C18: applying a template sets findings and impression to the catalog's
\* texts for an exam type of the catalog and to empty strings for any other,
\* whatever they held, and leaves name, patient id, national id, exam date,
\* clinical indication and the persistent id alone.
ThmC18 ==
    [][ \A type \in ExamTypes :
           handleTemplate(type) =>
              /\ type \in DOMAIN TEMPLATES =>
                    /\ form'.findings = TEMPLATES[type].normal
                    /\ form'.impression = TEMPLATES[type].impression
              /\ type \notin DOMAIN TEMPLATES =>
                    form'.findings = "" /\ form'.impression = ""
              /\ \A k \in {"name", "id", "rrn", "date", "indication"} :
                    form'[k] = form[k]
              /\ currentId' = currentId ]_vars

\* the scrotum template has replaced the findings of the saved report
WitC18 ==
    /\ lastEdit.op = "template" /\ lastEdit.arg = "Scrotum US"
    /\ form.findings = TEMPLATES["Scrotum US"].normal
    /\ form.impression = "Normal scrotal ultrasound."
    /\ form.name = "A" /\ currentId = AutoId(1)

\* C19: applying to the result of applyTemplate(t) the same template again
\* changes neither findings nor impression.
ThmC19 ==
    [][ \A type \in ExamTypes :
           handleTemplate(type) =>
              /\ applyTemplate(form', type).findings = form'.findings
              /\ applyTemplate(form', type).impression = form'.impression
              /\ Repeats("template", type) >= 1 =>
                    /\ form'.findings = form.findings
                    /\ form'.impression = form.impression ]_vars

\* the abdomen template was applied twice in a row
WitC19 ==
    /\ lastEdit.op = "template" /\ lastEdit.arg = "Abdomen US"
    /\ lastEdit.n = 2
    /\ form.findings = TEMPLATES["Abdomen US"].normal

\* C20: the snippets offered are the exam type's own list when the catalog has
\* one and the general list otherwise, and there is always at least one.
ThmC20 ==
    LET o == abnormalOptions(form)
    IN /\ Len(o) > 0
       /\ form.type = "Abdomen US" =>
             [i \in 1..Len(o) |-> o[i].label]
                = <<"Cholecystitis", "Hepatomegaly", "Splenomegaly">>
       /\ form.type = "Scrotum US" =>
             [i \in 1..Len(o) |-> o[i].label]
                = <<"Torsion", "Epididymo-orchitis", "Hydrocele">>
       /\ form.type \notin {"Abdomen US", "Scrotum US"} =>
             /\ o = COMMON_ABNORMAL["general"]
             /\ [i \in 1..Len(o) |-> o[i].label]
                   = <<"Free fluid", "Lymphadenopathy">>

\* under an exam type without a list of its own, a snippet of the general list
\* was appended
WitC20 ==
    /\ form.type = "Thyroid US"
    /\ lastEdit.op = "snippet"
    /\ lastEdit.arg = COMMON_ABNORMAL["general"][2].text

\* C21: for an RRN input with fewer than 7 digits the effect leaves an empty
\* age and no sex.
ClaimC21 ==
    [][ LET RECURSIVE Digits(_)
            Digits(s) ==     \* the digits of s, in order
                IF s = "" THEN ""
                ELSE (IF IsDigit(SubSeq(s, 1, 1)) THEN SubSeq(s, 1, 1) ELSE "")
                        \o Digits(SubSeq(s, 2, Len(s)))
        IN (rrnEffect /\ Len(Digits(form.rrn)) < 7)
              => ageSex'.age = JsEmpty /\ ageSex'.sex = "" ]_vars

\* C22: for an RRN input with at least 7 digits, with d the 7th digit: the
\* birth year is 1900 (d in {1,2,5,6}) or 2000 plus the first two digits, the
\* sex is Male for odd d and Female for even d, and the age is the current year
\* minus the birth year, less one exactly when today's (month, day) comes
\* before the birth (month, day).
ClaimC22 ==
    [][ LET RECURSIVE Digits(_)
            Digits(s) ==     \* the digits of s, in order
                IF s = "" THEN ""
                ELSE (IF IsDigit(SubSeq(s, 1, 1)) THEN SubSeq(s, 1, 1) ELSE "")
                        \o Digits(SubSeq(s, 2, Len(s)))
        IN (rrnEffect /\ Len(Digits(form.rrn)) >= 7) =>
           LET ds == Digits(form.rrn)
               d == DigitVal(SubSeq(ds, 7, 7))
               birthYear == (IF d \in {1, 2, 5, 6} THEN 1900 ELSE 2000)
                               + 10 * DigitVal(SubSeq(ds, 1, 1))
                               + DigitVal(SubSeq(ds, 2, 2))
               birthMonth == 10 * DigitVal(SubSeq(ds, 3, 3)) + DigitVal(SubSeq(ds, 4, 4))
               birthDay == 10 * DigitVal(SubSeq(ds, 5, 5)) + DigitVal(SubSeq(ds, 6, 6))
               before == \/ today.month + 1 < birthMonth
                         \/ today.month + 1 = birthMonth /\ today.date < birthDay
           IN /\ ageSex'.sex = IF d % 2 = 1 THEN "Male" ELSE "Female"
              /\ ageSex'.age = JsNum(today.year - birthYear
                                        - IF before THEN 1 ELSE 0) ]_vars

\* C23: an age that is not empty is a number and is not negative.
ClaimC23 ==
    ageSex.age # JsEmpty => ageSex.age.t = "number" /\ ageSex.age.val >= 0

\* C24: a generate invocation that ends with the model's text writes it in one
\* place: polish into findings and nothing else of the report, impression into
\* impression and nothing else, explain into the explanation dialog and nothing
\* of the report; the persistent id stays as it is.
ThmC24 ==
    [][ (ended'.kind # "none" /\ ended'.raw # Null) =>
           /\ currentId' = currentId
           /\ ended'.kind = "polish" =>
                 /\ \A k \in DOMAIN form \ {"findings"} : form'[k] = form[k]
                 /\ ended'.result # "" => form'.findings = ended'.result
                 /\ aiExplanation' = aiExplanation
           /\ ended'.kind = "impression" =>
                 /\ \A k \in DOMAIN form \ {"impression"} : form'[k] = form[k]
                 /\ ended'.result # "" => form'.impression = ended'.result
                 /\ aiExplanation' = aiExplanation
           /\ ended'.kind = "explain" =>
                 /\ form' = form
                 /\ ended'.result # "" => aiExplanation' = ended'.result ]_vars

\* an impression call has just ended with the text "ok", written next to the
\* findings it was made from
WitC24 ==
    /\ ended.kind = "impression" /\ ended.result = "ok"
    /\ form.impression = "ok" /\ form.findings = "f"

\* C25: the call to the model made for an explain request has a higher
\* temperature and a larger max_output_tokens than the calls made for polish
\* and impression requests, which are made with one temperature and one
\* max_output_tokens.
ClaimC25 ==
    invocation.phase = "calling" =>
       /\ invocation.req.mode \in {"polish", "impression"} =>
             /\ invocation.call.temperature = ModelRequest("polish").temperature
             /\ invocation.call.temperature = ModelRequest("impression").temperature
             /\ invocation.call.max_output_tokens
                   = ModelRequest("polish").max_output_tokens
             /\ invocation.call.max_output_tokens
                   = ModelRequest("impression").max_output_tokens
       /\ invocation.req.mode = "explain" =>
             /\ invocation.call.max_output_tokens
                   > ModelRequest("polish").max_output_tokens
             /\ invocation.call.temperature > ModelRequest("polish").temperature

\* C26: an invocation never makes more than MAX_RETRIES external calls, each
\* invocation counting its own; an invocation in flight comes to an end; and
\* when it has ended the in-flight indicator is off.
ThmC26 ==
    /\ [](\A k \in 1..Len(calls) :
             calls[k].n <= MAX_RETRIES /\ calls[k].n = calls[k].i + 1)
    /\ [](ended.kind # "none" => ended.n <= MAX_RETRIES /\ aiLoading = "false")
    /\ (calls # <<>>) ~> (calls = <<>> /\ aiLoading = "false")

\* an invocation has ended in failure after three external calls, and a new
\* generate can be requested
WitC26 ==
    /\ ended.kind # "none" /\ ended.n = MAX_RETRIES /\ ended.raw = Null
    /\ calls = <<>> /\ aiLoading = "false"

\* C27: the report of the session has at most one document, created or being
\* created: the creates in flight that were issued for it, and the document it
\* has adopted, never add up to two.
ClaimC27 ==
    Cardinality({i \in 1..Len(pending) :
                    pending[i].kind = "create" /\ ~pending[i].stale})
       + (IF sessionDoc # Null THEN 1 ELSE 0) <= 1

\* C28: when a create completes that was issued for a report the session no
\* longer holds (new() or load() came in between), the persistent id of the
\* session stays as it is.
ClaimC28 ==
    [][ (SaveResolved /\ Head(pending).kind = "create" /\ Head(pending).stale)
           => currentId' = currentId ]_vars

\* C29: a save sends the eight fields of the report as they are, the write
\* stores them as sent, and loading an entry of the list of the latest snapshot
\* leaves in the form, field by field, what its document holds.
ThmC29 ==
    [][ /\ (handleSave /\ form.name # "")
           => \A k \in DOMAIN BlankForm : pending'[Len(pending')].data[k] = form[k]
        /\ SaveResolved
           => \A k \in DOMAIN BlankForm :
                 store'[Head(pending).id][k] = Head(pending).data[k]
        /\ \A i \in 1..Len(reports) :
              (handleLoad(reports[i]) /\ reports = SnapshotList)
                 => \A k \in DOMAIN BlankForm :
                       form'[k] = store[reports[i]._doc][k] ]_vars

\* the filled-in report, saved and loaded again: the session is keyed by what
\* load took from the entry, and the form holds the document's fields
WitC29 ==
    /\ currentId = "p1"
    /\ form = FilledForm
    /\ sessionDoc \in DOMAIN store
    /\ \A k \in DOMAIN BlankForm : store[sessionDoc][k] = form[k]
    /\ ageSex.sex = "Male"

\* C30: when the delete of a history entry completes and the entry's document
\* is not the one the session's report is stored in, the report's fields and
\* the session's persistent id are what they were (entries with a patient id,
\* so that the gateway is given a document path it accepts).
ClaimC30 ==
    [][ (DeleteResolved /\ Head(pending).sel # sessionDoc /\ Head(pending).id # "")
           => form' = form /\ currentId' = currentId ]_vars

====
